---- MODULE Spec2Model ----
(***************************************************************************)
(* A model of gormtool (src/main.go): the emission pipeline generateFile,  *)
(* the tag/name resolver buildModelFieldInfo with snakeString, the model   *)
(* builder buildModelInfo and the classifier getModelObjects/isTablerFunc. *)
(*                                                                         *)
(* Each component has its own specification over the shared variables:     *)
(*   Spec          generateFile                                            *)
(*   SpecModel     buildModelInfo / buildModelFieldInfo / snakeString      *)
(*   SpecClassify  getModelObjects / isTablerFunc                          *)
(***************************************************************************)
EXTENDS Integers, Sequences, FiniteSets, TLC

\* ------------------------------------------------------------------------
\* Bounds of the model
\* ------------------------------------------------------------------------
MaxModels == 3
MaxHeader == 2
MaxBlock == 2
MaxFileSize == 4
MaxFields == 2
MaxFiles == 2
MaxDecls == 2

\* The end-to-end emission scenario of the specification (section 8): its
\* numbers are inputs of one run, not bounds.
Scenario == [n |-> 5, header |-> 10, block |-> 30, maxSize |-> 50]

VARIABLES
    \* ---- generateFile --------------------------------------------------
    nModels,     \* len(models): the models are 1..nModels, in input order
    maxSize,     \* Build.FileMaxSize()
    hLen,        \* bytes the header template renders to
    hOK,         \* whether hTemplate.Execute succeeds
    parseOK,     \* "ok", or the template whose Parse fails
    blockDom,    \* the byte lengths a content rendering may have
    buffer,      \* bytes.Buffer, as the sequence of renderings appended
    index,       \* the file index
    setHeader,   \* the header-written flag
    fs,          \* the output directory: file index -> content written
    torn,        \* indices of files created whose Write failed
    v,           \* position of the range loop: the next model
    rendered,    \* model -> what cTemplate.Execute did for it
    pc,          \* "parse", "loop", "done"
    result,      \* the error generateFile returns ("nil": none)
    \* ---- buildModelInfo -----------------------------------------------
    objFields,   \* the struct's field declarations (ast.Field), in order
    mFields,     \* m.Fields
    primaryKey,  \* the pointer primaryKey: an index into m.Fields, 0 for nil
    mi,          \* position of the range loop over objFields
    mpc,         \* "idle", "fields", "done", "panic"
    \* ---- getModelObjects ----------------------------------------------
    fileNo,      \* the files visited so far
    declNo,      \* the declarations of the current file visited so far
    onceDone,    \* the sync.Once has run
    packageMap,  \* packageMap[Build.PackageKey()], "" while unset
    objects,     \* the handles collected
    lastDecl,    \* the declaration visited last
    lastAdded,   \* whether it was appended to objects
    cpc          \* "idle", "files", "done", "panic"

emitVars == <<nModels, maxSize, hLen, hOK, parseOK, blockDom, buffer, index,
              setHeader, fs, torn, v, rendered, pc, result>>

modelVars == <<objFields, mFields, primaryKey, mi, mpc>>

classVars == <<fileNo, declNo, onceDone, packageMap, objects, lastDecl, lastAdded, cpc>>

vars == <<emitVars, modelVars, classVars>>

\* ------------------------------------------------------------------------
\* generateFile (src/main.go 78-132)
\* ------------------------------------------------------------------------
NotRendered == [len |-> 0, state |-> "none"]

HeaderSeg == [kind |-> "header", model |-> 0, len |-> hLen, ok |-> TRUE]

ContentSeg(m, n, ok) == [kind |-> "content", model |-> m, len |-> n, ok |-> ok]

RECURSIVE BufLen(_)
\* buffer.Len(): the bytes of the renderings appended
BufLen(buf) == IF buf = <<>> THEN 0 ELSE Head(buf).len + BufLen(Tail(buf))

\* os.Create + f.Write: the file of this index holds exactly the bytes written
WriteFile(files, i, buf) ==
    [j \in (DOMAIN files) \cup {i} |-> IF j = i THEN buf ELSE files[j]]

\* line 121: `if size < maxSize { continue }`
ShouldFlush_Strict(size) == size > maxSize

ShouldFlush_Early(size) == size >= maxSize - 1

ShouldFlush(size) == size >= maxSize

\* save, lines 98-112, when Create and Write succeed
SaveOK_NoIndex(buf) ==
    /\ fs' = WriteFile(fs, index, buf)
    /\ index' = index
    /\ buffer' = <<>>
    /\ setHeader' = FALSE
    /\ torn' = torn

SaveOK(buf) ==
    /\ fs' = WriteFile(fs, index, buf)
    /\ index' = index + 1
    /\ buffer' = <<>>
    /\ setHeader' = FALSE
    /\ torn' = torn

\* save when os.Create fails (line 101) or f.Write fails (line 105): the
\* error is returned; index, buffer and setHeader are left as they are.
SaveFail(buf, created) ==
    /\ fs' = fs
    /\ index' = index
    /\ buffer' = buf
    /\ setHeader' = TRUE
    /\ torn' = IF created THEN torn \cup {index} ELSE torn

EmitInputsSmall ==
    /\ nModels \in 0..MaxModels
    /\ maxSize \in (-1)..MaxFileSize
    /\ hLen \in 0..MaxHeader
    /\ blockDom = 0..MaxBlock

EmitInputsScenario ==
    /\ nModels = Scenario.n
    /\ maxSize = Scenario.maxSize
    /\ hLen = Scenario.header
    /\ blockDom = {Scenario.block}

EmitInit ==
    /\ EmitInputsSmall \/ EmitInputsScenario
    /\ hOK \in BOOLEAN
    /\ parseOK \in {"ok", "header", "content"}
    /\ buffer = <<>>
    /\ index = 0
    /\ setHeader = FALSE
    /\ fs = <<>>
    /\ torn = {}
    /\ v = 1
    /\ rendered = [m \in 1..nModels |-> NotRendered]
    /\ pc = "parse"
    /\ result = "nil"

\* lines 79-90: both templates are parsed before anything is rendered
ParseTemplates ==
    /\ pc = "parse"
    /\ IF parseOK = "ok"
          THEN pc' = "loop" /\ result' = result
          ELSE pc' = "done" /\ result' = "parse"
    /\ UNCHANGED <<nModels, maxSize, hLen, hOK, parseOK, blockDom, buffer,
                   index, setHeader, fs, torn, v, rendered>>
    /\ UNCHANGED <<modelVars, classVars>>

\* lines 114-118 when setFileHeader fails: its error is returned
HeaderFails ==
    /\ pc = "loop" /\ v <= nModels
    /\ ~setHeader /\ ~hOK
    /\ pc' = "done" /\ result' = "header"
    /\ UNCHANGED <<nModels, maxSize, hLen, hOK, parseOK, blockDom, buffer,
                   index, setHeader, fs, torn, v, rendered>>
    /\ UNCHANGED <<modelVars, classVars>>

\* One iteration of the range loop, lines 113-127.  The content rendering
\* either succeeds with n bytes or fails after writing n bytes (Execute
\* writes to the buffer as it goes); its error is assigned to err (line
\* 119) and never read: line 121 continues, or line 124 overwrites it with
\* save's.
LoopBody ==
    /\ pc = "loop" /\ v <= nModels
    /\ setHeader \/ hOK
    /\ \E n \in blockDom \cup {0}, ok \in BOOLEAN :
         /\ ok => n \in blockDom
         /\ LET buf1 == IF setHeader THEN buffer ELSE Append(buffer, HeaderSeg)
                buf2 == Append(buf1, ContentSeg(v, n, ok))
            IN  /\ rendered' = [rendered EXCEPT ![v] =
                       [len |-> n, state |-> IF ok THEN "ok" ELSE "failed"]]
                /\ IF ~ShouldFlush(BufLen(buf2))
                      THEN /\ buffer' = buf2
                           /\ setHeader' = TRUE
                           /\ v' = v + 1
                           /\ UNCHANGED <<index, fs, torn, pc, result>>
                      ELSE \/ /\ SaveOK(buf2)
                              /\ v' = v + 1
                              /\ UNCHANGED <<pc, result>>
                           \/ \E created \in BOOLEAN :
                                /\ SaveFail(buf2, created)
                                /\ pc' = "done" /\ result' = "io"
                                /\ v' = v
    /\ UNCHANGED <<nModels, maxSize, hLen, hOK, parseOK, blockDom>>
    /\ UNCHANGED <<modelVars, classVars>>

\* lines 128-131, after the loop
Finish ==
    /\ pc = "loop" /\ v > nModels
    /\ pc' = "done"
    /\ IF BufLen(buffer) = 0
          THEN /\ result' = "nil"
               /\ UNCHANGED <<buffer, index, setHeader, fs, torn>>
          ELSE \/ SaveOK(buffer) /\ result' = "nil"
               \/ \E created \in BOOLEAN :
                    SaveFail(buffer, created) /\ result' = "io"
    /\ UNCHANGED <<nModels, maxSize, hLen, hOK, parseOK, blockDom, v, rendered>>
    /\ UNCHANGED <<modelVars, classVars>>

EmitIdle ==
    /\ nModels = 0 /\ maxSize = 0 /\ hLen = 0 /\ hOK = TRUE /\ parseOK = "ok"
    /\ blockDom = {} /\ buffer = <<>> /\ index = 0 /\ setHeader = FALSE
    /\ fs = <<>> /\ torn = {} /\ v = 1 /\ rendered = <<>>
    /\ pc = "idle" /\ result = "nil"

\* ------------------------------------------------------------------------
\* Strings: a Go string is the sequence of its (ASCII) characters
\* ------------------------------------------------------------------------
UpperSeq == <<"A", "B", "C", "D", "E", "F", "G", "H", "I", "J", "K", "L", "M",
              "N", "O", "P", "Q", "R", "S", "T", "U", "V", "W", "X", "Y", "Z">>

LowerSeq == <<"a", "b", "c", "d", "e", "f", "g", "h", "i", "j", "k", "l", "m",
              "n", "o", "p", "q", "r", "s", "t", "u", "v", "w", "x", "y", "z">>

\* v >= 'A' && v <= 'Z'
IsUpper(c) == \E i \in DOMAIN UpperSeq : UpperSeq[i] = c

\* v + diff, diff = 'a' - 'A'
ToLower(c) == LowerSeq[CHOOSE i \in DOMAIN UpperSeq : UpperSeq[i] = c]

\* the constants of lines 19-25
ColumnPrefix == <<"c", "o", "l", "u", "m", "n", ":">>

PrimaryKey1 == <<"p", "r", "i", "m", "a", "r", "y", "K", "e", "y">>

PrimaryKey2 == <<"p", "r", "i", "m", "a", "r", "y", "_", "k", "e", "y">>

GormKey == <<"g", "o", "r", "m">>

JsonKey == <<"j", "s", "o", "n">>

\* strings.HasPrefix, strings.TrimPrefix
HasPrefix(s, prefix) ==
    Len(s) >= Len(prefix) /\ SubSeq(s, 1, Len(prefix)) = prefix

TrimPrefix(s, prefix) ==
    IF HasPrefix(s, prefix) THEN SubSeq(s, Len(prefix) + 1, Len(s)) ELSE s

RECURSIVE SplitFrom(_, _, _)
SplitFrom(s, sep, cur) ==
    IF s = <<>> THEN <<cur>>
    ELSE IF Head(s) = sep THEN <<cur>> \o SplitFrom(Tail(s), sep, <<>>)
    ELSE SplitFrom(Tail(s), sep, Append(cur, Head(s)))

\* strings.Split(s, sep) for a one-character separator
Split(s, sep) == SplitFrom(s, sep, <<>>)

RECURSIVE ReplaceAllID(_)
\* strings.ReplaceAll(str, "ID", "id"): left to right, not overlapping
ReplaceAllID(s) ==
    IF Len(s) < 2 THEN s
    ELSE IF s[1] = "I" /\ s[2] = "D"
         THEN <<"i", "d">> \o ReplaceAllID(SubSeq(s, 3, Len(s)))
    ELSE <<s[1]>> \o ReplaceAllID(Tail(s))

RECURSIVE SnakeFrom(_, _)
\* the loop of snakeString from rune i (counted from 0) on
SnakeFrom(r, i) ==
    IF i >= Len(r) THEN <<>>
    ELSE LET c == r[i + 1]
         IN  (IF IsUpper(c)
                 THEN (IF i # 0 THEN <<"_">> ELSE <<>>) \o <<ToLower(c)>>
                 ELSE <<c>>)
             \o SnakeFrom(r, i + 1)

\* snakeString, lines 267-281
snakeString(str) == SnakeFrom(ReplaceAllID(str), 0)

\* ------------------------------------------------------------------------
\* reflect.StructTag.Get, as the standard library defines it
\* ------------------------------------------------------------------------
NotFound == [ok |-> FALSE, value |-> <<>>]

RECURSIVE SkipSpaces(_)
SkipSpaces(t) == IF t # <<>> /\ Head(t) = " " THEN SkipSpaces(Tail(t)) ELSE t

\* a character of a key: not a space, a colon or a quote (the model's
\* strings hold no control characters)
IsKeyChar(c) == c \notin {" ", ":", "\""}

RECURSIVE ScanKey(_, _)
ScanKey(t, i) == IF i < Len(t) /\ IsKeyChar(t[i + 1]) THEN ScanKey(t, i + 1) ELSE i

RECURSIVE ScanQuoted(_, _)
ScanQuoted(t, i) ==
    IF i < Len(t) /\ t[i + 1] # "\""
       THEN ScanQuoted(t, IF t[i + 1] = "\\" THEN i + 2 ELSE i + 1)
       ELSE i

\* strconv.Unquote of a quoted string without escapes
Unquote(q) == SubSeq(q, 2, Len(q) - 1)

RECURSIVE Lookup(_, _)
\* reflect.StructTag.Lookup: a pair whose closing quote is missing ends the
\* scan, and with it the pairs after it
Lookup(tag0, key) ==
    LET tag == SkipSpaces(tag0)
    IN  IF tag = <<>> THEN NotFound
        ELSE LET i == ScanKey(tag, 0)
             IN  IF i = 0 \/ i + 1 >= Len(tag) \/ tag[i + 1] # ":" \/ tag[i + 2] # "\""
                    THEN NotFound
                    ELSE LET name == SubSeq(tag, 1, i)
                             rest == SubSeq(tag, i + 2, Len(tag))
                             q == ScanQuoted(rest, 1)
                         IN  IF q >= Len(rest) THEN NotFound
                             ELSE IF key = name
                                  THEN [ok |-> TRUE, value |-> Unquote(SubSeq(rest, 1, q + 1))]
                             ELSE Lookup(SubSeq(rest, q + 2, Len(rest)), key)

TagGet(tag, key) == Lookup(tag, key).value


\* ------------------------------------------------------------------------
\* Field declarations (ast.Field) and their struct tags
\* ------------------------------------------------------------------------
\* A tag is written as its key:"value" pairs; TagValue is the text of the
\* literal as the parser keeps it in af.Tag.Value, back quotes included.
W_foo == <<"f", "o", "o">>

W_bar == <<"b", "a", "r">>

W_uid == <<"u", "i", "d">>

W_id == <<"i", "d">>

W_x == <<"x">>

W_ID == <<"I", "D">>

W_UserID == <<"U", "s", "e", "r", "I", "D">>

W_Name == <<"N", "a", "m", "e">>

ColTok(arg) == [kind |-> "column", text |-> ColumnPrefix \o arg, arg |-> arg]

PkTok1 == [kind |-> "pk", text |-> PrimaryKey1, arg |-> <<>>]

PkTok2 == [kind |-> "pk", text |-> PrimaryKey2, arg |-> <<>>]

GormTokenLists ==
    { <<ColTok(W_foo)>>,
      <<PkTok1>>,
      <<PkTok2>>,
      <<ColTok(W_uid), PkTok1>>,
      <<ColTok(W_foo), ColTok(W_bar)>>,
      <<ColTok(W_id)>> }

RECURSIVE JoinTokens(_)
JoinTokens(toks) ==
    IF toks = <<>> THEN <<>>
    ELSE IF Len(toks) = 1 THEN toks[1].text
    ELSE toks[1].text \o <<";">> \o JoinTokens(Tail(toks))

GormPair(toks) == [key |-> GormKey, value |-> JoinTokens(toks), tokens |-> toks]

JsonPair(val) == [key |-> JsonKey, value |-> val, tokens |-> <<>>]

GormPairs == {GormPair(t) : t \in GormTokenLists}

JsonPairs == {JsonPair(W_x)}

PairLists ==
    {<<>>}
    \cup {<<g>> : g \in GormPairs}
    \cup {<<j>> : j \in JsonPairs}
    \cup {<<g, j>> : g \in GormPairs, j \in JsonPairs}
    \cup {<<j, g>> : g \in GormPairs, j \in JsonPairs}

NoTag == [present |-> FALSE, pairs |-> <<>>, trailing |-> FALSE]

\* trailing: a space between the last pair and the closing back quote
Tags == {NoTag} \cup [present : {TRUE}, pairs : PairLists, trailing : BOOLEAN]

FieldNames == {W_ID, W_UserID, W_Name}

\* a named field with any tag, or an embedded field (no names)
FieldDecls ==
    [names : {<<n>> : n \in FieldNames}, tag : Tags]
    \cup {[names |-> <<>>, tag |-> NoTag]}

RECURSIVE JoinPairs(_)
JoinPairs(pairs) ==
    IF pairs = <<>> THEN <<>>
    ELSE (pairs[1].key \o <<":", "\"">> \o pairs[1].value \o <<"\"">>)
         \o (IF Len(pairs) = 1 THEN <<>> ELSE <<" ">> \o JoinPairs(Tail(pairs)))

\* the back quote character that delimits a raw string literal
BackQuote == "BQ"

\* af.Tag.Value
TagValue(tag) ==
    <<BackQuote>> \o JoinPairs(tag.pairs)
        \o (IF tag.trailing THEN <<" ">> ELSE <<>>) \o <<BackQuote>>

\* ------------------------------------------------------------------------
\* buildModelFieldInfo (src/main.go 223-265): Name, Column, PrimaryKey
\* ------------------------------------------------------------------------
\* the zero ModelFieldInfo
ZeroField == [Name |-> <<>>, Column |-> <<>>, PrimaryKey |-> FALSE]

Panicked == [panic |-> TRUE, field |-> ZeroField]

Returned(f) == [panic |-> FALSE, field |-> f]

\* line 228: af.Tag.Value[1 : len(af.Tag.Value)-2]
TagSlice(value) == SubSeq(value, 2, Len(value) - 2)

RECURSIVE ScanTokens(_, _)
\* lines 230-236: the loop over strings.Split(tagValue, ";")
ScanTokens(toks, field) ==
    IF toks = <<>> THEN field
    ELSE LET t == Head(toks)
         IN  ScanTokens(Tail(toks),
                 IF HasPrefix(t, ColumnPrefix)
                    THEN [field EXCEPT !.Column = TrimPrefix(t, ColumnPrefix)]
                 ELSE IF t = PrimaryKey1 \/ t = PrimaryKey2
                    THEN [field EXCEPT !.PrimaryKey = TRUE]
                 ELSE field)

\* lines 223-242; lines 243-263 set only field.Type
buildModelFieldInfo(af) ==
    IF af.names = <<>> THEN Panicked
    ELSE LET named == [ZeroField EXCEPT !.Name = af.names[1]]
             fallback == [named EXCEPT !.Column = snakeString(named.Name)]
         IN  IF ~af.tag.present THEN Returned(fallback)
             ELSE LET value == TagValue(af.tag)
                  IN  IF Len(value) < 3 THEN Panicked
                      ELSE LET tag == TagSlice(value)
                               gorm == TagGet(tag, GormKey)
                               json == TagGet(tag, JsonKey)
                           IN  IF gorm # <<>>
                                  THEN Returned(ScanTokens(Split(gorm, ";"), named))
                               ELSE IF json # <<>>
                                  THEN Returned([named EXCEPT !.Column = json])
                               ELSE Returned(fallback)

\* ------------------------------------------------------------------------
\* buildModelInfo (src/main.go 202-221)
\* ------------------------------------------------------------------------
\* obj is a struct type: line 204 reads its field list
ModelInit ==
    /\ objFields \in UNION {[1..n -> FieldDecls] : n \in 0..MaxFields}
    /\ mFields = [i \in 1..Len(objFields) |-> ZeroField]
    /\ primaryKey = 0
    /\ mi = 1
    /\ mpc = "fields"

ModelIdle ==
    /\ objFields = <<>> /\ mFields = <<>> /\ primaryKey = 0 /\ mi = 1
    /\ mpc = "idle"

\* one iteration of the loop, lines 207-216
BuildField ==
    /\ mpc = "fields" /\ mi <= Len(objFields)
    /\ LET r == buildModelFieldInfo(objFields[mi])
       IN  IF r.panic
              THEN /\ mpc' = "panic"
                   /\ UNCHANGED <<mFields, primaryKey, mi>>
              ELSE /\ mFields' = [mFields EXCEPT ![mi] = r.field]
                   /\ primaryKey' =
                        IF r.field.PrimaryKey THEN mi
                        ELSE IF primaryKey = 0 /\ r.field.Column = W_id THEN mi
                        ELSE primaryKey
                   /\ mi' = mi + 1
                   /\ mpc' = mpc
    /\ UNCHANGED objFields
    /\ UNCHANGED <<emitVars, classVars>>

\* lines 217-220
SetPrimaryKey ==
    /\ mpc = "fields" /\ mi > Len(objFields)
    /\ mFields' = IF primaryKey # 0
                     THEN [mFields EXCEPT ![primaryKey].PrimaryKey = TRUE]
                     ELSE mFields
    /\ mpc' = "done"
    /\ UNCHANGED <<objFields, primaryKey, mi>>
    /\ UNCHANGED <<emitVars, classVars>>

\* ------------------------------------------------------------------------
\* isTablerFunc (src/main.go 153-184) and getModelObjects (62-76)
\* ------------------------------------------------------------------------
NilObj == "nil"

\* a nil *ast.FieldList
NilList == [isNil |-> TRUE, list |-> <<>>]

FieldList(l) == [isNil |-> FALSE, list |-> l]

\* decl.Recv: nil for a plain function, else the list of receiver fields,
\* each with the shape of its type expression (T, *T, **T, T[K]) and the
\* object its identifier resolves to
RecvLists ==
    {<<>>}
    \cup {<<[kind |-> k, obj |-> o]>> : k \in {"ident", "star"}, o \in {"User", NilObj}}
    \cup {<<[kind |-> k, obj |-> "User"]>> : k \in {"starstar", "index"}}

\* decl.Type.Results: nil without results, else the list of result fields,
\* each with the number of names it declares and its type
ResultLists ==
    { <<[names |-> 0, type |-> "string"]>>,
      <<[names |-> 0, type |-> "int"]>>,
      <<[names |-> 0, type |-> "pkg.String"]>>,
      <<[names |-> 2, type |-> "string"]>>,
      <<[names |-> 0, type |-> "string"], [names |-> 0, type |-> "error"]>> }

\* params: len(decl.Type.Params.List)
FuncDecls ==
    [isFunc : {TRUE},
     recv : {NilList} \cup {FieldList(l) : l \in RecvLists},
     name : {"TableName", "String"},
     params : 0..1,
     results : {NilList} \cup {FieldList(l) : l \in ResultLists}]

\* a declaration that is no *ast.FuncDecl
GenDecl ==
    [isFunc |-> FALSE, recv |-> NilList, name |-> "", params |-> 0, results |-> NilList]

Decls == FuncDecls \cup {GenDecl}

NoDecl ==
    [isFunc |-> FALSE, recv |-> NilList, name |-> "none", params |-> 0, results |-> NilList]

TablerPanic == [panic |-> TRUE, obj |-> NilObj, ok |-> FALSE]

NotTabler == [panic |-> FALSE, obj |-> NilObj, ok |-> FALSE]

Tabler(obj) == [panic |-> FALSE, obj |-> obj, ok |-> TRUE]

\* lines 153-184; reading .List of a nil field list is a nil dereference
isTablerFunc(decl) ==
    IF decl.recv.isNil THEN TablerPanic
    ELSE IF Len(decl.recv.list) = 0 THEN NotTabler
    ELSE IF decl.name # "TableName" THEN NotTabler
    ELSE IF decl.params > 0 THEN NotTabler
    ELSE IF decl.results.isNil THEN TablerPanic
    ELSE IF Len(decl.results.list) # 1 THEN NotTabler
    ELSE IF decl.results.list[1].type # "string" THEN NotTabler
    ELSE IF decl.recv.list[1].kind \in {"star", "ident"}
         THEN Tabler(decl.recv.list[1].obj)
    ELSE NotTabler

ClassInit ==
    /\ fileNo = 0 /\ declNo = 0 /\ onceDone = FALSE /\ packageMap = ""
    /\ objects = <<>> /\ lastDecl = NoDecl /\ lastAdded = FALSE
    /\ cpc = "files"

ClassIdle ==
    /\ fileNo = 0 /\ declNo = 0 /\ onceDone = FALSE /\ packageMap = ""
    /\ objects = <<>> /\ lastDecl = NoDecl /\ lastAdded = FALSE
    /\ cpc = "idle"

\* lines 63-66: the next file; the first one seeds packageMap, once
NextFile ==
    /\ cpc = "files" /\ fileNo < MaxFiles
    /\ \E pkg \in {"models", "other"} :
         packageMap' = IF onceDone THEN packageMap ELSE pkg
    /\ onceDone' = TRUE
    /\ fileNo' = fileNo + 1
    /\ declNo' = 0
    /\ UNCHANGED <<objects, lastDecl, lastAdded, cpc>>
    /\ UNCHANGED <<emitVars, modelVars>>

\* lines 67-73: the next declaration of the current file
VisitDecl ==
    /\ cpc = "files" /\ fileNo >= 1 /\ declNo < MaxDecls
    /\ \E d \in Decls :
         /\ lastDecl' = d
         /\ declNo' = declNo + 1
         /\ IF ~d.isFunc
               THEN UNCHANGED <<objects, cpc>> /\ lastAdded' = FALSE
               ELSE LET r == isTablerFunc(d)
                    IN  IF r.panic
                           THEN cpc' = "panic" /\ lastAdded' = FALSE /\ objects' = objects
                        ELSE IF r.ok
                           THEN objects' = Append(objects, r.obj) /\ lastAdded' = TRUE
                                /\ cpc' = cpc
                        ELSE UNCHANGED <<objects, cpc>> /\ lastAdded' = FALSE
    /\ UNCHANGED <<fileNo, onceDone, packageMap>>
    /\ UNCHANGED <<emitVars, modelVars>>

\* line 75
ReturnObjects ==
    /\ cpc = "files"
    /\ cpc' = "done"
    /\ UNCHANGED <<fileNo, declNo, onceDone, packageMap, objects, lastDecl, lastAdded>>
    /\ UNCHANGED <<emitVars, modelVars>>

\* ------------------------------------------------------------------------
\* Specifications
\* ------------------------------------------------------------------------
Init == EmitInit /\ ModelIdle /\ ClassIdle

Next == ParseTemplates \/ HeaderFails \/ LoopBody \/ Finish

Spec == Init /\ [][Next]_vars

InitModel == EmitIdle /\ ModelInit /\ ClassIdle

NextModel == BuildField \/ SetPrimaryKey

SpecModel == InitModel /\ [][NextModel]_vars

InitClassify == EmitIdle /\ ModelIdle /\ ClassInit

NextClassify == NextFile \/ VisitDecl \/ ReturnObjects

SpecClassify == InitClassify /\ [][NextClassify]_vars

\* ------------------------------------------------------------------------
\* Properties of generateFile
\* ------------------------------------------------------------------------
FileIdx == DOMAIN fs

Max(S) == CHOOSE x \in S : \A y \in S : y <= x

IsContent(seg) == seg.kind = "content"

RECURSIVE ModelsOf(_)
\* the models of the content blocks of a buffer or file, in order
ModelsOf(buf) ==
    IF buf = <<>> THEN <<>>
    ELSE IF IsContent(Head(buf)) THEN <<Head(buf).model>> \o ModelsOf(Tail(buf))
    ELSE ModelsOf(Tail(buf))

RECURSIVE WrittenUpTo(_)
\* the models of the content blocks of the files of index < k, in index order
WrittenUpTo(k) ==
    IF k = 0 THEN <<>>
    ELSE WrittenUpTo(k - 1) \o (IF (k - 1) \in FileIdx THEN ModelsOf(fs[k - 1]) ELSE <<>>)

WrittenModels == IF FileIdx = {} THEN <<>> ELSE WrittenUpTo(Max(FileIdx) + 1)

InputModels == [m \in 1..nModels |-> m]

NoGaps == FileIdx = 0..(Cardinality(FileIdx) - 1)

RenderFailed == \E m \in 1..nModels : rendered[m].state = "failed"

\* the run returned nil and no template render and no file write failed
CleanRun == pc = "done" /\ result = "nil" /\ ~RenderFailed

IsScenario ==
    /\ nModels = Scenario.n /\ maxSize = Scenario.maxSize
    /\ hLen = Scenario.header /\ blockDom = {Scenario.block}

\* C1 (as stated): in a run where no render and no write fails, the content
\* blocks of the written files, read in file-index order 0, 1, 2, ..., are
\* exactly the input models in input order.
C1_AllModelsWritten ==
    CleanRun => NoGaps /\ WrittenModels = InputModels

\* C1 (amended): in such a run the files are indexed 0, 1, 2, ... without
\* gaps and their content blocks followed by the blocks still in the buffer
\* are exactly the input models in input order; blocks stay in the buffer
\* only when the buffer holds zero bytes after the last model.
C1_AllModelsWrittenUnlessEmpty ==
    CleanRun =>
        /\ NoGaps
        /\ WrittenModels \o ModelsOf(buffer) = InputModels
        /\ buffer # <<>> => BufLen(buffer) = 0

C1_Witness ==
    /\ CleanRun
    /\ nModels >= 3
    /\ Cardinality(FileIdx) >= 2
    /\ WrittenModels = InputModels

\* the places (file, position) that hold bytes rendered for model m
PlacesOf(m) ==
    {<<j, p>> \in FileIdx \X (1..(nModels + 1)) :
        p \in DOMAIN fs[j] /\ IsContent(fs[j][p]) /\ fs[j][p].model = m}

InBuffer(m) == \E p \in DOMAIN buffer : IsContent(buffer[p]) /\ buffer[p].model = m

\* C2: every emitted file except possibly the last has byte length >=
\* maxSize, and the bytes rendered for a model lie in one file: they are
\* never divided between two files or between a file and the buffer.
C2_SizeBoundAndNoSplit ==
    /\ \A j \in FileIdx : j # Max(FileIdx) => BufLen(fs[j]) >= maxSize
    /\ \A t \in torn : \A j \in FileIdx : j < t
    /\ \A m \in 1..nModels :
         /\ Cardinality(PlacesOf(m)) <= 1
         /\ \A pl \in PlacesOf(m) :
              /\ fs[pl[1]][pl[2]].len = rendered[m].len
              /\ ~InBuffer(m)

C2_Witness ==
    /\ pc = "done" /\ result = "nil"
    /\ Cardinality(FileIdx) >= 2
    /\ maxSize >= 1
    /\ BufLen(fs[Max(FileIdx)]) < maxSize
    /\ \E j \in FileIdx : Len(fs[j]) >= 3

\* one header rendering first, then one or more complete content renderings
WellFormedFile(f) ==
    /\ Len(f) >= 2
    /\ f[1].kind = "header"
    /\ \A p \in 2..Len(f) : IsContent(f[p]) /\ f[p].ok

\* C3: every file written consists of exactly one header rendering, placed
\* first, followed by one or more content renderings.
C3_HeaderThenContent == \A j \in FileIdx : WellFormedFile(fs[j])

\* C4: when rendering the content template for a model fails, generateFile
\* returns that render error at once and processes no later model.
C4_RenderErrorAborts ==
    \A m \in 1..nModels :
        rendered[m].state = "failed" =>
            /\ pc = "done"
            /\ result = "render"
            /\ \A k \in (m + 1)..nModels : rendered[k].state = "none"

\* the sizes and the models of the files, in index order
FileSizes == [j \in FileIdx |-> BufLen(fs[j])]

FileModels == [j \in FileIdx |-> ModelsOf(fs[j])]

\* C10: for maxSize >= 1 the unflushed buffer holds fewer than maxSize bytes
\* at the end of each iteration; a file is flushed at the first model whose
\* block brings the buffer, header included, to maxSize or more; and 5
\* models of 30-byte blocks with a 10-byte header and maxSize 50 give three
\* files of 70, 70 and 40 bytes holding 2, 2 and 1 models.
C10_FlushAtFirstCrossing ==
    /\ (maxSize >= 1 /\ pc = "loop") => BufLen(buffer) < maxSize
    /\ maxSize >= 1 =>
         \A j \in FileIdx : \A p \in 2..(Len(fs[j]) - 1) :
             BufLen(SubSeq(fs[j], 1, p)) < maxSize
    /\ (IsScenario /\ CleanRun) =>
         /\ FileIdx = 0..2
         /\ FileSizes = [j \in 0..2 |-> IF j = 2 THEN 40 ELSE 70]
         /\ FileModels = [j \in 0..2 |->
                IF j = 0 THEN <<1, 2>> ELSE IF j = 1 THEN <<3, 4>> ELSE <<5>>]

C10_Witness == IsScenario /\ CleanRun /\ Cardinality(FileIdx) = 3

\* ------------------------------------------------------------------------
\* Properties of buildModelFieldInfo and buildModelInfo
\* ------------------------------------------------------------------------
\* What a declaration's tag says, read off the tag as written
HasGorm(af) ==
    af.tag.present /\ \E i \in DOMAIN af.tag.pairs : af.tag.pairs[i].key = GormKey

GormTokens(af) ==
    LET i == CHOOSE i \in DOMAIN af.tag.pairs : af.tag.pairs[i].key = GormKey
    IN  af.tag.pairs[i].tokens

IsColumnTok(t) == t.kind = "column"

ColumnArgs(af) == SelectSeq(GormTokens(af), IsColumnTok)

HasColumnToken(af) == HasGorm(af) /\ ColumnArgs(af) # <<>>

LastColumn(af) == ColumnArgs(af)[Len(ColumnArgs(af))].arg

FlaggedByAnnotation(af) ==
    HasGorm(af) /\ \E i \in DOMAIN GormTokens(af) : GormTokens(af)[i].kind = "pk"

\* the fields buildModelInfo has resolved
Resolved == IF mpc \in {"fields", "done"} THEN 1..(mi - 1) ELSE {}

PrimaryKeys == {i \in DOMAIN mFields : mFields[i].PrimaryKey}

\* C5: a field whose tag carries a gorm annotation with a token column:foo
\* resolves to Column foo, the last column: token deciding, whether gorm is
\* the only, the first or the last key of the tag.
C5_ColumnFromAnnotation ==
    \A i \in Resolved :
        HasColumnToken(objFields[i]) => mFields[i].Column = LastColumn(objFields[i])

\* C6: at most one field of a built model has PrimaryKey = true.
C6_AtMostOnePrimaryKey ==
    mpc = "done" => Cardinality(PrimaryKeys) <= 1

FirstFlagged ==
    CHOOSE i \in DOMAIN objFields :
        /\ FlaggedByAnnotation(objFields[i])
        /\ \A j \in 1..(i - 1) : ~FlaggedByAnnotation(objFields[j])

\* the struct of the end-to-end scenario: a field tagged
\* gorm:"column:uid;primaryKey", then an untagged field named ID
IsUidScenario ==
    /\ Len(objFields) = 2
    /\ objFields[1].tag =
         [present |-> TRUE, pairs |-> <<GormPair(<<ColTok(W_uid), PkTok1>>)>>,
          trailing |-> FALSE]
    /\ objFields[1].names # <<>>
    /\ objFields[2] = [names |-> <<W_ID>>, tag |-> NoTag]

\* C7: in a model with an annotation-flagged primary key the primary key is
\* the first flagged field in declaration order; the scenario struct yields
\* the uid field as the only primary key and column id for the field ID.
C7_FirstFlaggedIsPrimaryKey ==
    mpc = "done" =>
        /\ (\E i \in DOMAIN objFields : FlaggedByAnnotation(objFields[i]))
              => PrimaryKeys = {FirstFlagged}
        /\ IsUidScenario =>
              /\ PrimaryKeys = {1}
              /\ mFields[1].Column = W_uid
              /\ mFields[2].Column = W_id

\* C8: the resolved Column is never empty, and with a gorm annotation that
\* holds no column: token it is the snake case of the field name.
C8_ColumnNeverEmpty ==
    \A i \in Resolved :
        /\ mFields[i].Column # <<>>
        /\ (HasGorm(objFields[i]) /\ ~HasColumnToken(objFields[i]))
              => mFields[i].Column = snakeString(objFields[i].names[1])

\* ------------------------------------------------------------------------
\* Properties of getModelObjects and isTablerFunc
\* ------------------------------------------------------------------------
RECURSIVE NumResults(_)
\* the results a result list declares: one per name, one for an unnamed field
NumResults(l) ==
    IF l = <<>> THEN 0
    ELSE (IF Head(l).names = 0 THEN 1 ELSE Head(l).names) + NumResults(Tail(l))

\* a method named TableName with no parameter, one result of type string
\* and a value or single-level pointer receiver
Qualifies(d) ==
    /\ d.isFunc
    /\ ~d.recv.isNil /\ Len(d.recv.list) = 1
    /\ d.recv.list[1].kind \in {"ident", "star"}
    /\ d.name = "TableName"
    /\ d.params = 0
    /\ ~d.results.isNil /\ NumResults(d.results.list) = 1
    /\ d.results.list[1].type = "string"

\* C9: a declaration yields a handle if and only if it is a qualifying
\* method; every other declaration, a plain function or a method without
\* result included, is skipped and the run goes on to the next one.
C9_ClassifiesExactlyTablers ==
    /\ cpc # "panic"
    /\ lastDecl # NoDecl => (lastAdded <=> Qualifies(lastDecl))

====
